---- MODULE Spec2Model ----
(***************************************************************************)
(* lwtnn Graph: construction of the node graph from a flat configuration   *)
(* (Graph::Graph, build_node, get_feedforward_node) and its evaluation     *)
(* (Graph::compute and the three INode::compute variants).                 *)
(*                                                                         *)
(* Pointers are modelled as 1-based positions in the owning vector:        *)
(* an INode* is a position in m_nodes, a Stack* a position in m_stacks.    *)
(* Node ids of the configuration are 0-based, as in the source.            *)
(***************************************************************************)
EXTENDS Integers, Sequences, FiniteSets, TLC

\* ------------------------------------------------------------------ bounds
\* Every configuration of up to MaxNodes entries over the entry menu below is
\* an input, together with the reference topologies under every renumbering.
MaxNodes == 2
MaxWidth == 1
NLayers == 2

\* ------------------------------------------------------------ configuration
NodeIds == 0 .. (MaxNodes - 1)

\* NodeConfig::sources of a FEED_FORWARD or CONCATENATE entry: no, one or two
\* upstream node ids, which may name an id past the end of the configuration.
SourceLists ==
  {<<>>} \cup {<<a>> : a \in NodeIds} \cup {<<a, b>> : a \in NodeIds, b \in NodeIds}

\* LayerConfig: only the flat weight list matters to this code; layer l of the
\* generated configurations has 2*(l+1) weights.
GenLayer(l) == [j \in 1 .. 2 * (l + 1) |-> IF j % 2 = 1 THEN 1 ELSE l]

GenLayers == [l \in 1 .. NLayers |-> GenLayer(l - 1)]

InputEntries ==
  {[type |-> "INPUT", sources |-> s, index |-> w] :
     s \in {<<>>, <<0>>, <<1>>}, w \in -1 .. MaxWidth}

FeedForwardEntries ==
  {[type |-> "FEED_FORWARD", sources |-> s, index |-> l] :
     s \in SourceLists, l \in -1 .. NLayers}

ConcatenateEntries ==
  {[type |-> "CONCATENATE", sources |-> s, index |-> 0] : s \in SourceLists}

Entries == InputEntries \cup FeedForwardEntries \cup ConcatenateEntries

GeneratedConfigs ==
  {[nodes |-> ns, layers |-> GenLayers] :
     ns \in UNION {[1 .. n -> Entries] : n \in 1 .. MaxNodes}}

\* dummy_config() of lwtnn-test-graph.cxx, node ids 0..4 and one dense layer.
dummy_nodes ==
  << [type |-> "INPUT", sources |-> <<0>>, index |-> 2],
     [type |-> "INPUT", sources |-> <<1>>, index |-> 2],
     [type |-> "CONCATENATE", sources |-> <<0, 1>>, index |-> 0],
     [type |-> "FEED_FORWARD", sources |-> <<2>>, index |-> 0],
     [type |-> "FEED_FORWARD", sources |-> <<3>>, index |-> 0] >>

dummy_layers ==
  << <<0, 0, 0, 1,  0, 0, 1, 0,  0, 1, 0, 0,  1, 0, 0, 0>> >>

dummy_config == [nodes |-> dummy_nodes, layers |-> dummy_layers]

\* Reference topologies: a stage shared along a chain, a stage shared by a
\* fan-out beside a second stage, a two-node cycle behind an input, and a
\* diamond (node 0 over the branches 1 and 2, which both read node 3).
SharedChain ==
  << [type |-> "INPUT", sources |-> <<0>>, index |-> 1],
     [type |-> "FEED_FORWARD", sources |-> <<0>>, index |-> 0],
     [type |-> "FEED_FORWARD", sources |-> <<1>>, index |-> 0] >>

SharedFanOut ==
  << [type |-> "INPUT", sources |-> <<0>>, index |-> 1],
     [type |-> "FEED_FORWARD", sources |-> <<0>>, index |-> 0],
     [type |-> "FEED_FORWARD", sources |-> <<0>>, index |-> 0],
     [type |-> "FEED_FORWARD", sources |-> <<0>>, index |-> 1] >>

TwoCycle ==
  << [type |-> "INPUT", sources |-> <<0>>, index |-> 1],
     [type |-> "CONCATENATE", sources |-> <<0, 2>>, index |-> 0],
     [type |-> "FEED_FORWARD", sources |-> <<1>>, index |-> 0] >>

Diamond ==
  << [type |-> "CONCATENATE", sources |-> <<1, 2>>, index |-> 0],
     [type |-> "FEED_FORWARD", sources |-> <<3>>, index |-> 0],
     [type |-> "FEED_FORWARD", sources |-> <<3>>, index |-> 1],
     [type |-> "INPUT", sources |-> <<1>>, index |-> 1] >>

Topologies ==
  {dummy_config} \cup
  {[nodes |-> ns, layers |-> GenLayers] : ns \in {SharedChain, SharedFanOut, TwoCycle, Diamond}}

Renumberings(n) == {f \in [0 .. n - 1 -> 0 .. n - 1] : \A i, j \in DOMAIN f : f[i] = f[j] => i = j}

\* the configuration with entry i moved to id f[i] and every upstream id
\* renamed accordingly (an INPUT's source is a slot of the ISource, not an id)
Renumbered(ns, f) ==
  [k \in 1 .. Len(ns) |->
     LET i == CHOOSE i \in DOMAIN f : f[i] = k - 1
         e == ns[i + 1]
     IN  IF e.type = "INPUT" THEN e
         ELSE [e EXCEPT !.sources = [j \in 1 .. Len(e.sources) |-> f[e.sources[j]]]]]

RenumberedConfigs ==
  UNION {{[nodes |-> Renumbered(t.nodes, f), layers |-> t.layers] :
            f \in Renumberings(Len(t.nodes))} : t \in Topologies}

\* --------------------------------------------------------------------- state
VARIABLES
  nodes,       \* const std::vector<NodeConfig>& nodes
  layers,      \* const std::vector<LayerConfig>& layers
  m_nodes,     \* Graph::m_nodes, in order of construction
  m_stacks,    \* Graph::m_stacks, in order of construction
  node_map,    \* std::map<size_t, INode*> of the constructor
  stack_map,   \* std::map<size_t, Stack*> of the constructor
  callstack,   \* activation records of build_node, innermost last
  top_iii,     \* loop counter of Graph::Graph
  phase,       \* "building" | "built" | "failed"
  fault,       \* the exception that ended construction, or "none"
  call         \* the last Graph::compute call and its outcome

vars == <<nodes, layers, m_nodes, m_stacks, node_map, stack_map,
          callstack, top_iii, phase, fault, call>>

NoCall == [op |-> "none"]

Init ==
  /\ \E config \in GeneratedConfigs \cup RenumberedConfigs :
       /\ nodes = config.nodes
       /\ layers = config.layers
  /\ m_nodes = <<>>
  /\ m_stacks = <<>>
  /\ node_map = <<>>
  /\ stack_map = <<>>
  /\ callstack = <<>>
  /\ top_iii = 0
  /\ phase = "building"
  /\ fault = "none"
  /\ call = NoCall

\* ------------------------------------------------------------------- Stack
\* lwt::Stack is declared in lwtnn/Stack.hh, outside these sources: a single
\* dense layer without bias.  Its weight list is a row-major matrix with
\* n_inputs columns; construction fails when the list does not divide into
\* rows.
StackCanBuild(n_inputs, layer) ==
  /\ n_inputs > 0
  /\ Len(layer) % n_inputs = 0

StackNew(n_inputs, layer) ==
  [n_inputs |-> n_inputs, n_outputs |-> Len(layer) \div n_inputs, weights |-> layer]

RECURSIVE Dot(_, _, _, _)
Dot(w, x, base, c) ==
  IF c = 0 THEN 0 ELSE w[base + c] * x[c] + Dot(w, x, base, c - 1)

\* Stack::compute: weights * input
StackCompute(stack, x) ==
  [r \in 1 .. stack.n_outputs |->
     Dot(stack.weights, x, (r - 1) * stack.n_inputs, stack.n_inputs)]

\* ------------------------------------------------------------------- nodes
InputNode(index, n_outputs) ==
  [kind |-> "Input", m_index |-> index, m_n_outputs |-> n_outputs]

\* variant: the node keeps a pointer to the slot it is about to occupy
\* instead of its upstream node
FeedForwardNode_SelfSource(stack, source) ==
  [kind |-> "FeedForward", m_stack |-> stack, m_source |-> Len(m_nodes) + 1]

FeedForwardNode(stack, source) ==
  [kind |-> "FeedForward", m_stack |-> stack, m_source |-> source]

\* INode::n_outputs of the node at position p of m_nodes
n_outputs(p) ==
  IF m_nodes[p].kind = "FeedForward" THEN m_stacks[m_nodes[p].m_stack].n_outputs
  ELSE m_nodes[p].m_n_outputs

RECURSIVE SumOutputs(_, _)
SumOutputs(sources, k) ==
  IF k = 0 THEN 0
  ELSE SumOutputs(sources, k - 1) + n_outputs(sources[k])

\* ConcatenateNode constructor: m_n_outputs accumulates the upstream widths
ConcatenateNode(sources) ==
  [kind |-> "Concatenate", m_sources |-> sources,
   m_n_outputs |-> SumOutputs(sources, Len(sources))]

\* ------------------------------------------------------------ construction
Top == callstack[Len(callstack)]
Pop == SubSeq(callstack, 1, Len(callstack) - 1)
InRange(iii) == iii < Len(nodes)
Cfg(iii) == nodes[iii + 1]

\* an exception leaves the constructor; callstack keeps the activation
\* records as they were when it was thrown
Throw(msg) ==
  /\ phase' = "failed"
  /\ fault' = msg
  /\ UNCHANGED callstack

\* variant: an id on the active resolution chain counts as resolved
Resolved_OrActive(iii) ==
  iii \in DOMAIN node_map \/ iii \in callstack[Len(callstack)].cycle_check

\* node_map.count(iii)
Resolved(iii) == iii \in DOMAIN node_map

\* variant: the id is inserted into cycle_check at the call site
Callee_Inserted(parent, source_node) ==
  [iii |-> source_node, cycle_check |-> parent.cycle_check \cup {source_node},
   pc |-> "enter", k |-> 1]

\* the activation record of build_node(source_node, ..., cycle_check) called
\* from the record parent: cycle_check is passed by value
Callee(parent, source_node) ==
  [iii |-> source_node, cycle_check |-> parent.cycle_check, pc |-> "enter", k |-> 1]

\* node_map[iii] = m_nodes.back() after a push_back
Record(iii, node) ==
  /\ m_nodes' = Append(m_nodes, node)
  /\ node_map' = (iii :> (Len(m_nodes) + 1)) @@ node_map

\* Graph::Graph: the loop over all ids, then assert(node_map.size() ==
\* nodes.size())
GraphCtorStep ==
  /\ phase = "building"
  /\ callstack = <<>>
  /\ IF top_iii < Len(nodes)
     THEN /\ callstack' = <<[iii |-> top_iii, cycle_check |-> {}, pc |-> "enter", k |-> 1]>>
          /\ top_iii' = top_iii + 1
          /\ UNCHANGED <<phase, fault>>
     ELSE /\ IF Cardinality(DOMAIN node_map) = Len(nodes)
             THEN phase' = "built" /\ UNCHANGED fault
             ELSE phase' = "failed" /\ fault' = "assert"
          /\ UNCHANGED <<callstack, top_iii>>
  /\ UNCHANGED <<nodes, layers, m_nodes, m_stacks, node_map, stack_map, call>>

\* build_node up to the cycle check: memo hit, range check, INPUT, cycle
BuildNodeEnter ==
  /\ phase = "building"
  /\ callstack # <<>>
  /\ Top.pc = "enter"
  /\ LET iii == Top.iii IN
     IF Resolved(iii)
     THEN /\ callstack' = Pop
          /\ UNCHANGED <<m_nodes, node_map, phase, fault>>
     ELSE IF ~InRange(iii)
     THEN /\ Throw("no node index")
          /\ UNCHANGED <<m_nodes, node_map>>
     ELSE IF Cfg(iii).type = "INPUT"
     THEN IF Len(Cfg(iii).sources) # 1
          THEN /\ Throw("input node needs need one source")
               /\ UNCHANGED <<m_nodes, node_map>>
          ELSE IF Cfg(iii).index < 0
          THEN /\ Throw("input node needs positive index")
               /\ UNCHANGED <<m_nodes, node_map>>
          ELSE /\ Record(iii, InputNode(Cfg(iii).sources[1], Cfg(iii).index))
               /\ callstack' = Pop
               /\ UNCHANGED <<phase, fault>>
     ELSE IF iii \in Top.cycle_check
     THEN /\ Throw("found cycle in graph")
          /\ UNCHANGED <<m_nodes, node_map>>
     ELSE /\ callstack' = [callstack EXCEPT ![Len(callstack)] =
                             [@ EXCEPT !.cycle_check = @ \cup {iii}, !.pc = "loop"]]
          /\ UNCHANGED <<m_nodes, node_map, phase, fault>>
  /\ UNCHANGED <<nodes, layers, m_stacks, stack_map, top_iii, call>>

\* build_node: one iteration of the loop over node.sources, a recursive call
\* that receives a copy of cycle_check
BuildNodeSource ==
  /\ phase = "building"
  /\ callstack # <<>>
  /\ Top.pc = "loop"
  /\ Top.k <= Len(Cfg(Top.iii).sources)
  /\ callstack' =
       Append([callstack EXCEPT ![Len(callstack)] = [@ EXCEPT !.k = @ + 1]],
              Callee(Top, Cfg(Top.iii).sources[Top.k]))
  /\ UNCHANGED <<nodes, layers, m_nodes, m_stacks, node_map, stack_map,
                 top_iii, phase, fault, call>>

\* variant: a new Stack for every FeedForward node, stack_map never consulted
get_feedforward_node_NoCache(node) ==
  LET layer_n == node.index
      source == node_map[node.sources[1]]
      width == n_outputs(source)
      none == [fault |-> "none", node |-> <<>>, stacks |-> m_stacks, smap |-> stack_map]
  IN  IF Len(node.sources) # 1 THEN [none EXCEPT !.fault = "need one source"]
      ELSE IF node.sources[1] \notin DOMAIN node_map
      THEN [none EXCEPT !.fault = "std::out_of_range"]
      ELSE IF layer_n < 0 THEN [none EXCEPT !.fault = "negative layer number"]
      ELSE IF layer_n >= Len(layers) THEN [none EXCEPT !.fault = "no layer number"]
      ELSE IF ~StackCanBuild(width, layers[layer_n + 1])
      THEN [none EXCEPT !.fault = "stack configuration"]
      ELSE [fault |-> "none",
            node |-> FeedForwardNode(Len(m_stacks) + 1, source),
            stacks |-> Append(m_stacks, StackNew(width, layers[layer_n + 1])),
            smap |-> (layer_n :> (Len(m_stacks) + 1)) @@ stack_map]

\* get_feedforward_node: "fault" is the exception thrown, or "none" with the
\* node to append and the (possibly extended) stack collections
get_feedforward_node(node) ==
  LET layer_n == node.index
      source == node_map[node.sources[1]]
      width == n_outputs(source)
      none == [fault |-> "none", node |-> <<>>, stacks |-> m_stacks, smap |-> stack_map]
  IN  IF Len(node.sources) # 1 THEN [none EXCEPT !.fault = "need one source"]
      ELSE IF node.sources[1] \notin DOMAIN node_map
      THEN [none EXCEPT !.fault = "std::out_of_range"]
      ELSE IF layer_n < 0 THEN [none EXCEPT !.fault = "negative layer number"]
      ELSE IF layer_n >= Len(layers) THEN [none EXCEPT !.fault = "no layer number"]
      ELSE IF layer_n \notin DOMAIN stack_map
      THEN IF ~StackCanBuild(width, layers[layer_n + 1])
           THEN [none EXCEPT !.fault = "stack configuration"]
           ELSE [fault |-> "none",
                 node |-> FeedForwardNode(Len(m_stacks) + 1, source),
                 stacks |-> Append(m_stacks, StackNew(width, layers[layer_n + 1])),
                 smap |-> (layer_n :> (Len(m_stacks) + 1)) @@ stack_map]
      ELSE [none EXCEPT !.node = FeedForwardNode(stack_map[layer_n], source)]

\* build_node after the loop: construct the FeedForward or Concatenate node
BuildNodeConstruct ==
  /\ phase = "building"
  /\ callstack # <<>>
  /\ Top.pc = "loop"
  /\ Top.k > Len(Cfg(Top.iii).sources)
  /\ LET iii == Top.iii
         node == Cfg(iii)
     IN  IF node.type = "FEED_FORWARD"
         THEN LET ff == get_feedforward_node(node) IN
              IF ff.fault # "none"
              THEN /\ Throw(ff.fault)
                   /\ UNCHANGED <<m_nodes, node_map, m_stacks, stack_map>>
              ELSE /\ Record(iii, ff.node)
                   /\ m_stacks' = ff.stacks
                   /\ stack_map' = ff.smap
                   /\ callstack' = Pop
                   /\ UNCHANGED <<phase, fault>>
         ELSE IF node.type = "CONCATENATE"
         THEN IF \E j \in 1 .. Len(node.sources) : node.sources[j] \notin DOMAIN node_map
              THEN /\ Throw("std::out_of_range")
                   /\ UNCHANGED <<m_nodes, node_map, m_stacks, stack_map>>
              ELSE /\ Record(iii, ConcatenateNode(
                        [j \in 1 .. Len(node.sources) |-> node_map[node.sources[j]]]))
                   /\ callstack' = Pop
                   /\ UNCHANGED <<m_stacks, stack_map, phase, fault>>
         ELSE /\ Throw("unknown node type")
              /\ UNCHANGED <<m_nodes, node_map, m_stacks, stack_map>>
  /\ UNCHANGED <<nodes, layers, top_iii, call>>

\* ----------------------------------------------------------------- sources
\* An ISource is a VectorSource over m_inputs or a DummySource over m_sizes.
SlotSizes == UNION {[1 .. n -> 0 .. MaxWidth] : n \in 1 .. 2}

DummySource(input_sizes) == [type |-> "DummySource", m_sizes |-> input_sizes]

VectorSource(vv) == [type |-> "VectorSource", m_inputs |-> vv]

\* the vectors handed to VectorSource: slot s of size n holds 10*s+1 .. 10*s+n
SlotVectors(sizes) ==
  [s \in 1 .. Len(sizes) |-> [i \in 1 .. sizes[s] |-> 10 * s + i]]

\* main(): one slot per entry of config.inputs, as wide as its variable list
main_source == DummySource(<<2, 2>>)

Sources ==
  {DummySource(z) : z \in SlotSizes} \cup {VectorSource(SlotVectors(z)) : z \in SlotSizes}
    \cup {main_source}

\* Outcome of an evaluation: a returned vector, an NNEvaluationException, an
\* abort by a failed assert(), or behaviour the language leaves undefined
\* (which stands for any outcome at all).
Returned(v) == [status |-> "ok", value |-> v]
EvaluationFault == [status |-> "NNEvaluationException", value |-> <<>>]
AssertAbort == [status |-> "assert", value |-> <<>>]
Undefined == [status |-> "undefined", value |-> <<>>]

\* variant: DummySource counts its entries from 1
SourceAt_FromOne(source, index) ==
  IF source.type = "VectorSource"
  THEN IF index >= Len(source.m_inputs) THEN EvaluationFault
       ELSE Returned(source.m_inputs[index + 1])
  ELSE IF index >= Len(source.m_sizes) THEN EvaluationFault
       ELSE Returned([iii \in 1 .. source.m_sizes[index + 1] |-> iii])

\* VectorSource::at and DummySource::at
SourceAt(source, index) ==
  IF source.type = "VectorSource"
  THEN IF index >= Len(source.m_inputs) THEN EvaluationFault
       ELSE Returned(source.m_inputs[index + 1])
  ELSE IF index >= Len(source.m_sizes) THEN EvaluationFault
       ELSE Returned([iii \in 1 .. source.m_sizes[index + 1] |-> iii - 1])

\* -------------------------------------------------------------- evaluation
\* ndebug: whether the build defines NDEBUG, which compiles assert() away.
InputNodeCompute(node, source, ndebug) ==
  LET output == SourceAt(source, node.m_index) IN
  IF output.status # "ok" THEN output
  ELSE IF ~ndebug /\ ~(Len(output.value) > 0) THEN AssertAbort
  ELSE IF Len(output.value) # node.m_n_outputs THEN EvaluationFault
  ELSE output

\* output.segment(offset, n) = input
Segment(output, offset, input) ==
  [i \in 1 .. Len(output) |->
     IF i > offset /\ i <= offset + Len(input) THEN input[i - offset] ELSE output[i]]

RECURSIVE ComputeNode(_, _, _)
RECURSIVE ConcatenateLoop(_, _, _, _, _, _)

\* ConcatenateNode::compute from source number k on, with the offset and the
\* output vector built so far
ConcatenateLoop(node, k, offset, output, source, ndebug) ==
  IF k > Len(node.m_sources)
  THEN \* assert(offset = m_n_outputs) assigns, then tests the value assigned
       IF ~ndebug /\ node.m_n_outputs = 0 THEN AssertAbort
       ELSE Returned(output)
  ELSE LET input == ComputeNode(node.m_sources[k], source, ndebug) IN
       IF input.status # "ok" THEN input
       ELSE IF ~ndebug /\ Len(input.value) # n_outputs(node.m_sources[k]) THEN AssertAbort
       ELSE IF offset + Len(input.value) > Len(output) THEN Undefined
       ELSE ConcatenateLoop(node, k + 1, offset + Len(input.value),
                            Segment(output, offset, input.value), source, ndebug)

\* FeedForwardNode::compute
FeedForwardNodeCompute(node, source, ndebug) ==
  LET input == ComputeNode(node.m_source, source, ndebug)
      stack == m_stacks[node.m_stack]
  IN  IF input.status # "ok" THEN input
      ELSE IF Len(input.value) # stack.n_inputs THEN Undefined
      ELSE Returned(StackCompute(stack, input.value))

\* INode::compute of the node at position p of m_nodes
ComputeNode(p, source, ndebug) ==
  LET node == m_nodes[p] IN
  IF node.kind = "Input" THEN InputNodeCompute(node, source, ndebug)
  ELSE IF node.kind = "FeedForward" THEN FeedForwardNodeCompute(node, source, ndebug)
  ELSE ConcatenateLoop(node, 1, 0, [i \in 1 .. node.m_n_outputs |-> "uninitialized"],
                       source, ndebug)

\* Graph::compute(source, node_number)
GraphCompute ==
  /\ phase = "built"
  /\ call = NoCall
  /\ \E source \in Sources, node_number \in 0 .. Len(nodes), ndebug \in BOOLEAN :
       call' = [op |-> "compute", source |-> source, node_number |-> node_number,
                ndebug |-> ndebug,
                out |-> IF node_number >= Len(m_nodes) THEN EvaluationFault
                        ELSE ComputeNode(node_number + 1, source, ndebug)]
  /\ UNCHANGED <<nodes, layers, m_nodes, m_stacks, node_map, stack_map,
                 callstack, top_iii, phase, fault>>

\* Graph::compute(source): the node constructed last
GraphComputeLast ==
  /\ phase = "built"
  /\ call = NoCall
  /\ \E source \in Sources, ndebug \in BOOLEAN :
       call' = [op |-> "compute_last", source |-> source, node_number |-> Len(m_nodes) - 1,
                ndebug |-> ndebug,
                out |-> ComputeNode(Len(m_nodes), source, ndebug)]
  /\ UNCHANGED <<nodes, layers, m_nodes, m_stacks, node_map, stack_map,
                 callstack, top_iii, phase, fault>>

\* the call returns or its exception is caught (an abort ends the process);
\* the Graph is unchanged
Return ==
  /\ call # NoCall
  /\ call.out.status \in {"ok", "NNEvaluationException"}
  /\ call' = NoCall
  /\ UNCHANGED <<nodes, layers, m_nodes, m_stacks, node_map, stack_map,
                 callstack, top_iii, phase, fault>>

Next ==
  \/ GraphCtorStep
  \/ BuildNodeEnter
  \/ BuildNodeSource
  \/ BuildNodeConstruct
  \/ GraphCompute
  \/ GraphComputeLast
  \/ Return

Spec == Init /\ [][Next]_vars

\* ------------------------------------------------------------- properties
Ids == 0 .. (Len(nodes) - 1)
IsNode(i) == i \in Ids /\ Cfg(i).type # "INPUT"
Upstream(i) == {Cfg(i).sources[j] : j \in 1 .. Len(Cfg(i).sources)}
FeedForwardIds == {i \in Ids : Cfg(i).type = "FEED_FORWARD"}
Evaluated == call.op # "none" /\ call.node_number < Len(m_nodes)
EvaluatedNode == m_nodes[call.node_number + 1]

\* C1: after a successful build the Graph holds one Node per configuration
\* entry and Graph::compute(source, k) evaluates the Node built from entry k,
\* in whatever order the entries reference each other.
C1_ComputeAddressesEntry ==
  phase = "built" =>
    /\ Len(m_nodes) = Len(nodes)
    /\ (call.op = "compute" /\ call.node_number \in Ids) =>
         node_map[call.node_number] = call.node_number + 1

\* C2: two non-INPUT entries that list each other as upstream
MutualCycle(a, b) ==
  /\ a # b
  /\ IsNode(a) /\ IsNode(b)
  /\ b \in Upstream(a) /\ a \in Upstream(b)

ConfigurationFaults ==
  {"no node index", "input node needs need one source", "input node needs positive index",
   "found cycle in graph", "need one source", "negative layer number", "no layer number",
   "unknown node type", "stack configuration"}

\* C2 as stated: with two entries that list each other as upstream,
\* construction fails with the cycle fault, raised while the node collection
\* is still empty.
C2_CycleFaultBeforeAnyNode ==
  (\E a, b \in Ids : MutualCycle(a, b)) =>
    /\ phase # "built"
    /\ phase = "failed" => (fault = "found cycle in graph" /\ m_nodes = <<>>)

\* C2 amended: with two entries A and B that list each other as upstream,
\* construction never completes, the exception that ends it is a
\* configuration fault, which is the cycle fault unless it is raised while
\* another entry is being resolved, and neither A nor B is ever constructed
\* (entries resolved before the cycle is reached may be).
C2_CycleNeverConstructed ==
  \A a, b \in Ids :
    MutualCycle(a, b) =>
      /\ phase # "built"
      /\ phase = "failed" =>
           /\ fault \in ConfigurationFaults
           /\ fault # "found cycle in graph" => ~(Top.iii \in {a, b})
      /\ ~(a \in DOMAIN node_map) /\ ~(b \in DOMAIN node_map)

C2_Witness ==
  /\ phase = "failed"
  /\ fault = "found cycle in graph"
  /\ \E a, b \in Ids : MutualCycle(a, b)
  /\ m_nodes # <<>>

\* C3: after a successful build there is one Stack per distinct stage id named
\* by a FEED_FORWARD entry, and FeedForward nodes of entries with the same
\* stage id hold the same Stack.
C3_OneStackPerStageId ==
  phase = "built" =>
    /\ Len(m_stacks) = Cardinality({Cfg(i).index : i \in FeedForwardIds})
    /\ \A i, j \in FeedForwardIds :
         (Cfg(i).index = Cfg(j).index) <=>
           (m_nodes[node_map[i]].m_stack = m_nodes[node_map[j]].m_stack)

C3_Witness ==
  /\ phase = "built"
  /\ Len(m_stacks) = 2
  /\ \E i, j \in FeedForwardIds : i # j /\ Cfg(i).index = Cfg(j).index

\* C4 as stated: the fixture of dummy_config evaluated with
\* DummySource({2, 2}): node 2 yields [0,1,0,1], nodes 3 and 4 both yield
\* [1,0,1,0], and one Stack exists.
C4_DummyConfigOutputs ==
  (nodes = dummy_nodes /\ layers = dummy_layers) =>
    /\ phase # "failed"
    /\ phase = "built" => Len(m_stacks) = 1
    /\ (call.op = "compute" /\ call.source = main_source) =>
         /\ call.node_number = 2 => call.out = Returned(<<0, 1, 0, 1>>)
         /\ call.node_number \in {3, 4} => call.out = Returned(<<1, 0, 1, 0>>)

\* C4 amended: node 2 yields [0,1,0,1], node 3 yields [1,0,1,0] and node 4,
\* which applies the reversing stage to the output of node 3, yields
\* [0,1,0,1] again; one Stack exists for layer 0.
C4_DummyConfigReversesTwice ==
  (nodes = dummy_nodes /\ layers = dummy_layers) =>
    /\ phase # "failed"
    /\ phase = "built" => Len(m_stacks) = 1
    /\ (call.op = "compute" /\ call.source = main_source) =>
         /\ call.node_number \in {2, 4} => call.out = Returned(<<0, 1, 0, 1>>)
         /\ call.node_number = 3 => call.out = Returned(<<1, 0, 1, 0>>)

C4_Witness ==
  /\ nodes = dummy_nodes
  /\ call.op = "compute"
  /\ call.source = main_source
  /\ call.node_number = 4
  /\ call.out.status = "ok"

RECURSIVE Flatten(_, _)
Flatten(vs, k) == IF k = 0 THEN <<>> ELSE Flatten(vs, k - 1) \o vs[k]

\* C5: a ConcatenateNode over any list of upstream nodes has the summed width
\* and, when its upstream nodes return, returns their vectors laid end to end
\* in the configured order.
C5_ConcatenateLaysEndToEnd ==
  (Evaluated /\ EvaluatedNode.kind = "Concatenate") =>
    LET ups == EvaluatedNode.m_sources
        outs == [j \in 1 .. Len(ups) |-> ComputeNode(ups[j], call.source, call.ndebug)]
    IN  /\ EvaluatedNode.m_n_outputs = SumOutputs(ups, Len(ups))
        /\ (\A j \in 1 .. Len(ups) : outs[j].status = "ok") =>
             /\ call.out = Returned(Flatten([j \in 1 .. Len(ups) |-> outs[j].value], Len(ups)))
             /\ Len(call.out.value) = EvaluatedNode.m_n_outputs

\* C6: an InputNode of any declared width returns the vector of its slot
\* unchanged when the length matches, and fails with NNEvaluationException
\* when the length differs or the slot is out of range.
C6_InputWidthEnforced ==
  (Evaluated /\ EvaluatedNode.kind = "Input") =>
    LET at == SourceAt(call.source, EvaluatedNode.m_index) IN
    call.out = IF at.status = "ok" /\ Len(at.value) = EvaluatedNode.m_n_outputs
               THEN at ELSE EvaluationFault

\* C7: build_node raises "found cycle in graph" exactly when the id it is
\* entered for is an unresolved non-INPUT entry on the active resolution
\* chain, which happens only in configurations whose dependency relation has
\* a cycle (never on a diamond).
ActiveChain == {callstack[d].iii : d \in 1 .. (Len(callstack) - 1)}

RECURSIVE ReachableFrom(_, _)
ReachableFrom(S, n) ==
  IF n = 0 THEN S
  ELSE ReachableFrom(S \cup UNION {Upstream(i) : i \in {x \in S : IsNode(x)}}, n - 1)

OnCycle(i) == IsNode(i) /\ i \in ReachableFrom(Upstream(i), Len(nodes))

BackEdge ==
  /\ callstack # <<>>
  /\ Top.pc = "enter"
  /\ ~(Top.iii \in DOMAIN node_map)
  /\ IsNode(Top.iii)
  /\ Top.iii \in ActiveChain

C7_CycleFaultOnlyOnBackEdge ==
  /\ fault = "found cycle in graph" => (BackEdge /\ OnCycle(Top.iii))
  /\ (phase = "failed" /\ BackEdge) => fault = "found cycle in graph"
  /\ (callstack # <<>> /\ Top.pc = "enter") => Top.cycle_check = ActiveChain

\* a diamond resolved to the end: some node has two distinct non-INPUT
\* upstream branches that both read one common node
C7_Witness ==
  /\ phase = "built"
  /\ \E t, l, r \in Ids :
       /\ l # r
       /\ IsNode(t) /\ IsNode(l) /\ IsNode(r)
       /\ {l, r} \subseteq Upstream(t)
       /\ Upstream(l) \cap Upstream(r) # {}

\* C8: every FeedForward or Concatenate node refers only to nodes appended to
\* m_nodes before it.
C8_UpstreamBuiltBefore ==
  \A p \in 1 .. Len(m_nodes) :
    /\ m_nodes[p].kind = "FeedForward" => m_nodes[p].m_source < p
    /\ m_nodes[p].kind = "Concatenate" =>
         \A j \in 1 .. Len(m_nodes[p].m_sources) : m_nodes[p].m_sources[j] < p

C8_Witness ==
  /\ phase = "built"
  /\ \E p, q \in 1 .. Len(m_nodes) :
       /\ m_nodes[p].kind = "FeedForward"
       /\ m_nodes[q].kind = "Concatenate" /\ Len(m_nodes[q].m_sources) = 2

\* C9: after a successful build the width of every FeedForward node's
\* upstream node equals the input width its Stack was constructed with.
C9_StackInputWidthMatches ==
  phase = "built" =>
    \A p \in 1 .. Len(m_nodes) :
      m_nodes[p].kind = "FeedForward" =>
        n_outputs(m_nodes[p].m_source) = m_stacks[m_nodes[p].m_stack].n_inputs

\* the source hands every Input node a vector of its declared width
SourceFits(source) ==
  \A p \in 1 .. Len(m_nodes) :
    m_nodes[p].kind = "Input" =>
      LET at == SourceAt(source, m_nodes[p].m_index) IN
      at.status = "ok" /\ Len(at.value) = m_nodes[p].m_n_outputs

\* C10: on a built Graph and a source of the declared widths, compute on any
\* node trips no assertion and returns a vector of the node's n_outputs().
C10_NoAssertionTrips ==
  (phase = "built" /\ Evaluated /\ SourceFits(call.source)) =>
    /\ call.out.status = "ok"
    /\ Len(call.out.value) = n_outputs(call.node_number + 1)

====
